---------------------------- MODULE Spec2Model ----------------------------
(***************************************************************************)
(* A model of zip-eocd: the End-of-Central-Directory locator, the central  *)
(* directory scanner and the single-entry extractor of src/zip-eocd.js.    *)
(*                                                                         *)
(* Representation of JavaScript values                                     *)
(*   - a byte buffer (Uint8Array) is a sequence of 0..255; the source's    *)
(*     0-based index k is element k+1;                                     *)
(*   - a read outside a buffer yields `undefined`: the bitwise decoders    *)
(*     (lget16, lget32) coerce it to 0, BigInt(undefined) throws a         *)
(*     TypeError (the *_throws predicates);                                *)
(*   - a Number is an integer; lget32 keeps JavaScript's signed 32-bit     *)
(*     result of `& 0xffffffff`;                                           *)
(*   - a BigInt is a little-endian tuple of five 16-bit limbs, so that the *)
(*     32- and 64-bit fields keep their full width;                        *)
(*   - a field whose type depends on the path that decoded it (Number from *)
(*     EOCD, BigInt from EOCD_64) is a tagged value [t, v];                *)
(*   - text decoded by cp_buf_str is the sequence of its code points.      *)
(***************************************************************************)
EXTENDS Integers, Sequences, FiniteSets, TLC

VARIABLES
    scn,        \* the archive's description (what the file was built from)
    file,       \* the bytes of the archive on disk
    pc,         \* position of the top-level call: "eocd", "cdir", "ready", "failed"
                \* ("buffer", "called" when resizableBuffer is run on its own)
    rb,         \* resizableBuffer's buf
    offset,     \* zipEOCD's offset: a tagged value, a Number in the EOCD search
                \* and a BigInt in the scan
    isFound,    \* zipEOCD's isFound
    isZip64,    \* zipEOCD's isZip64
    eocd,       \* zipEOCD's eocd (null until a record is decoded)
    cdirList,   \* zipEOCD's cdirList
    err,        \* the message of the error the call threw, "" while none
    cdirAt,     \* for each record of cdirList, the file offset it was decoded at
    headRead,   \* whether sb.head has been called by the central-directory scan
    ioFailed,   \* whether a read of the byte source failed (fs.readSync threw)
    maxLen,     \* largest length rb has had at any point of any pass
    out,        \* outcome of the last unzip call (of the last buffer call when
                \* resizableBuffer is run on its own)
    szbuf,      \* buf_64.byteLength, the size of one tail read
    hitAt,      \* file offset of the latest signature hit of the EOCD search, -1 if none
    fdOpen      \* whether the file descriptor randomAccessFile opened is open

vars == <<scn, file, pc, rb, offset, isFound, isZip64, eocd, cdirList, err,
          cdirAt, headRead, ioFailed, maxLen, out, szbuf, hitAt, fdOpen>>

-----------------------------------------------------------------------------
(* Program constants.                                                      *)

\* The search ceiling. The source stops the EOCD search SZ_MB_4 = 4 MiB from
\* the end of the file; the model scales the ceiling down so that an archive
\* of a few hundred bytes can exceed it.
SZ_MB_4 == 256

SZ_LOC_MAX == 1024

\* buf_64.byteLength
SZ_BUF_64 == 64

\* buf_2mb.byteLength. The source reads the central directory in windows of
\* SZ_MB_2 = 2 MiB; the model scales the window down so that a central
\* directory of a few records spans several windows. Every record of the
\* archives below is shorter than one window, as every record of a real
\* archive (at most 46 + 3 * 65535 bytes) is shorter than 2 MiB.
SZ_MB_2 == 96

SIG_EOCD_64 == \H06064b50
SIG_EOCD == \H06054b50
SIG_CDIR == \H02014b50
SIG_LOC == \H04034b50

EXTSIG_ZIP64 == 1

C_DEFLATE == 8
C_STORE == 0

-----------------------------------------------------------------------------
(* Numbers.                                                                *)

Min(a, b) == IF a < b THEN a ELSE b
Max(a, b) == IF a > b THEN a ELSE b

\* BigInt(num) for a Number 0 <= num < 2^31
bint(num) == <<num % 65536, num \div 65536, 0, 0, 0>>

\* Number(bigint) is exact below 2^53; the model holds it as an integer
\* when it is below 2^31 (InRange), which every caller checks first.
InRange(b) == b[5] = 0 /\ b[4] = 0 /\ b[3] = 0 /\ b[2] < 32768
num32b(b) == b[1] + 65536 * b[2]

RECURSIVE BInt_lt_from(_, _, _)
BInt_lt_from(a, b, k) ==
    IF k = 0 THEN FALSE
    ELSE IF a[k] # b[k] THEN a[k] < b[k]
    ELSE BInt_lt_from(a, b, k - 1)

\* a < b on BigInts
BInt_lt(a, b) == BInt_lt_from(a, b, 5)

\* a + b on BigInts (sums stay below 2^80)
BInt_add(a, b) ==
    LET s1 == a[1] + b[1]
        s2 == a[2] + b[2] + s1 \div 65536
        s3 == a[3] + b[3] + s2 \div 65536
        s4 == a[4] + b[4] + s3 \div 65536
        s5 == a[5] + b[5] + s4 \div 65536
    IN  <<s1 % 65536, s2 % 65536, s3 % 65536, s4 % 65536, s5 % 65536>>

\* a - b on BigInts, for a >= b
BInt_sub(a, b) ==
    LET d1 == a[1] - b[1]
        d2 == a[2] - b[2] - (IF d1 < 0 THEN 1 ELSE 0)
        d3 == a[3] - b[3] - (IF d2 < 0 THEN 1 ELSE 0)
        d4 == a[4] - b[4] - (IF d3 < 0 THEN 1 ELSE 0)
        d5 == a[5] - b[5] - (IF d4 < 0 THEN 1 ELSE 0)
    IN  <<d1 % 65536, d2 % 65536, d3 % 65536, d4 % 65536, d5 % 65536>>

BInt_min(a, b) == IF BInt_lt(b, a) THEN b ELSE a

\* Number.MAX_SAFE_INTEGER = 2^53 - 1, as a BigInt
MAX_SAFE_INTEGER == <<65535, 65535, 65535, 31, 0>>

\* Number.isSafeInteger(Number(b))
IsSafeInteger(b) == ~BInt_lt(MAX_SAFE_INTEGER, b)

\* A value that is a Number on one path and a BigInt on another.
JSNumber(n) == [t |-> "number", v |-> bint(n)]
JSBigInt(b) == [t |-> "bigint", v |-> b]

\* a === b: equal type and equal value
StrictEq(a, b) == a.t = b.t /\ a.v = b.v

-----------------------------------------------------------------------------
(* Binary field decoders.                                                  *)

\* buf[off] coerced by a bitwise operator: undefined becomes 0
U8(buf, off) == IF off >= 0 /\ off < Len(buf) THEN buf[off + 1] ELSE 0

\* every index of off .. off+n-1 is inside buf
Defined(buf, off, n) == off >= 0 /\ off + n <= Len(buf)

lget16(buf, off) == U8(buf, off) + 256 * U8(buf, off + 1)

\* (lget16(off) | (lget16(off+2) << 16)) & 0xffffffff: a signed 32-bit value
lget32(buf, off) ==
    LET lo == lget16(buf, off)
        hi == lget16(buf, off + 2)
    IN  lo + 65536 * (IF hi >= 32768 THEN hi - 65536 ELSE hi)

\* BigInt(buf[off]) throws a TypeError when buf[off] is undefined
lget16_bint_throws(buf, off) == ~Defined(buf, off, 2)
lget32_bint_throws(buf, off) == ~Defined(buf, off, 4)
lget64_bint_throws(buf, off) == ~Defined(buf, off, 8)

lget16_bint(buf, off) == <<lget16(buf, off), 0, 0, 0, 0>>
lget32_bint(buf, off) == <<lget16(buf, off), lget16(buf, off + 2), 0, 0, 0>>
lget64_bint(buf, off) ==
    <<lget16(buf, off), lget16(buf, off + 2),
      lget16(buf, off + 4), lget16(buf, off + 6), 0>>

\* arraycopy into a fresh zero-filled buffer of `size` bytes: the copy is
\* clamped to the bytes the source has from `off` on
cp_buf(buf, off, size) ==
    [k \in 1 .. size |-> IF off + k <= Len(buf) THEN buf[off + k] ELSE 0]

\* Buffer.from(bytes).toString('utf-8'): one code point per byte below 128,
\* U+FFFD for a byte that is no valid UTF-8 on its own
uint8arr_to_str(bytes) ==
    [k \in 1 .. Len(bytes) |-> IF bytes[k] < 128 THEN bytes[k] ELSE 65533]

cp_buf_str(buf, off, size) == uint8arr_to_str(cp_buf(buf, off, size))

-----------------------------------------------------------------------------
(* Record decoders.                                                        *)

NoZip64 ==
    [thrown |-> FALSE, has |-> FALSE, sz_uncompress |-> bint(0),
     sz_compress |-> bint(0), off_loc |-> bint(0),
     has_disk |-> FALSE, num_disk |-> bint(0)]

\* One turn of ZIP64_ext's while loop at _ext_off = p. Note the disk number
\* is read at off+28, eight bytes wide, whatever p is.
ZIP64_case(buf, off, p, z) ==
    LET id_hdr == lget16(buf, p)
        sz_data == lget16(buf, p + 2)
    IN  IF id_hdr = EXTSIG_ZIP64 /\ (sz_data = 24 \/ sz_data = 28)
        THEN IF ~Defined(buf, p + 4, 24)
             THEN [z EXCEPT !.thrown = TRUE]
             ELSE LET z1 == [z EXCEPT !.has = TRUE,
                                      !.sz_uncompress = lget64_bint(buf, p + 4),
                                      !.sz_compress = lget64_bint(buf, p + 12),
                                      !.off_loc = lget64_bint(buf, p + 20)]
                  IN  IF sz_data = 28
                      THEN IF lget64_bint_throws(buf, off + 28)
                           THEN [z EXCEPT !.thrown = TRUE]
                           ELSE [z1 EXCEPT !.has_disk = TRUE,
                                           !.num_disk = lget64_bint(buf, off + 28)]
                      ELSE z1
        ELSE z

RECURSIVE ZIP64_walk(_, _, _, _, _)
\* the loop `while (_ext_off < (off + ext_len))` from _ext_off = p on. Past
\* the end of buf every 16-bit read is 0, no sub-record is recognised and
\* the loop only counts up to its limit, so the walk ends there.
ZIP64_walk(buf, off, lim, p, z) ==
    IF z.thrown \/ p >= lim \/ p >= Len(buf) THEN z
    ELSE ZIP64_walk(buf, off, lim, p + 4 + lget16(buf, p + 2),
                    ZIP64_case(buf, off, p, z))

\* the fields a ZIP64 sub-record overrides (has, has_disk: which are set),
\* or thrown when a BigInt field lies outside buf
ZIP64_ext(buf, off, ext_len) == ZIP64_walk(buf, off, off + ext_len, off, NoZip64)

\* {...rec, ...zip64_ext}
Spread(rec, z) ==
    [rec EXCEPT !.sz_uncompress = IF z.has THEN z.sz_uncompress ELSE @,
                !.sz_compress = IF z.has THEN z.sz_compress ELSE @,
                !.off_loc = IF z.has THEN z.off_loc ELSE @,
                !.num_disk = IF z.has_disk THEN JSBigInt(z.num_disk) ELSE @]

LOC_throws(buf, off) ==
    \/ ~Defined(buf, off + 18, 8)
    \/ /\ lget16(buf, off + 28) > 0
       /\ ZIP64_ext(buf, off + 46 + lget16(buf, off + 26),
                    lget16(buf, off + 28) + 4).thrown

LOC(buf, off) ==
    LET loc == [sig |-> lget32(buf, off),
                ver |-> lget16(buf, off + 4),
                flg_gen |-> lget16(buf, off + 6),
                compression |-> lget16(buf, off + 8),
                tm_last_mod |-> lget16(buf, off + 10),
                dt_last_mod |-> lget16(buf, off + 12),
                crc_32 |-> lget32(buf, off + 14),
                sz_compress |-> lget32_bint(buf, off + 18),
                sz_uncompress |-> lget32_bint(buf, off + 22),
                len_filename |-> lget16(buf, off + 26),
                len_ext |-> lget16(buf, off + 28),
                filename |-> cp_buf_str(buf, off + 30, lget16(buf, off + 26)),
                sz_loc |-> 30 + lget16(buf, off + 26) + lget16(buf, off + 28),
                \* set by a ZIP64 sub-record only
                off_loc |-> bint(0),
                num_disk |-> JSNumber(0)]
    IN  IF loc.len_ext > 0
        THEN Spread(loc, ZIP64_ext(buf, off + 46 + loc.len_filename, loc.len_ext + 4))
        ELSE loc

EOCD_throws(buf, off) == ~Defined(buf, off + 12, 8)

EOCD(buf, off) ==
    LET e == [sig |-> lget32(buf, off),
              num_disk |-> JSNumber(lget16(buf, off + 4)),
              num_disk_cd |-> JSNumber(lget16(buf, off + 6)),
              num_disk_entries_cd |-> JSNumber(lget16(buf, off + 8)),
              num_entries_cd |-> JSNumber(lget16(buf, off + 10)),
              sz_cd |-> lget32_bint(buf, off + 12),
              off_disk_cd |-> lget32_bint(buf, off + 16),
              len_comment |-> lget16(buf, off + 20),
              comment |-> cp_buf_str(buf, off + 22, lget16(buf, off + 20)),
              is_zip_64 |-> FALSE]
    IN  [e EXCEPT !.is_zip_64 =
            \/ StrictEq(e.num_disk, JSNumber(65535))
            \/ StrictEq(e.num_disk_cd, JSNumber(65535))
            \/ StrictEq(e.num_disk_entries_cd, JSNumber(65535))
            \/ e.sz_cd = <<65535, 65535, 0, 0, 0>>
            \/ e.off_disk_cd = <<65535, 65535, 0, 0, 0>>]

\* A BigInt field outside buf throws a TypeError; cp_buf of a negative size
\* throws a RangeError. A sector of 2^31 bytes or more cannot be held by the
\* model and is taken to fail its allocation.
EOCD_64_throws(buf, off) ==
    \/ ~Defined(buf, off + 4, 8)
    \/ ~Defined(buf, off + 16, 40)
    \/ /\ BInt_lt(lget64_bint(buf, off + 4), MAX_SAFE_INTEGER)
       /\ \/ ~InRange(lget64_bint(buf, off + 4))
          \/ num32b(lget64_bint(buf, off + 4)) < 44

\* the merge with the spread reversed, `{...widened, ...eocd}`: the 32-bit
\* record's fields win
EOCD_64_reversed(buf, off, e) ==
    [sig |-> e.sig,
     len_comment |-> e.len_comment,
     comment |-> e.comment,
     is_zip_64 |-> e.is_zip_64,
     zip64_sig |-> lget32(buf, off),
     sz_eocd64 |-> lget64_bint(buf, off + 4),
     ver |-> lget16(buf, off + 12),
     ver_ext |-> lget16(buf, off + 14),
     num_disk |-> e.num_disk,
     num_disk_cd |-> e.num_disk_cd,
     num_disk_entries_cd |-> e.num_disk_entries_cd,
     num_entries_cd |-> e.num_entries_cd,
     sz_cd |-> e.sz_cd,
     off_disk_cd |-> e.off_disk_cd,
     zip64_ext |-> [too_large |-> FALSE, bytes |-> <<>>]]

EOCD_64(buf, off, e) ==
    [sig |-> e.sig,
     len_comment |-> e.len_comment,
     comment |-> e.comment,
     is_zip_64 |-> e.is_zip_64,
     zip64_sig |-> lget32(buf, off),
     sz_eocd64 |-> lget64_bint(buf, off + 4),
     ver |-> lget16(buf, off + 12),
     ver_ext |-> lget16(buf, off + 14),
     num_disk |-> JSBigInt(lget32_bint(buf, off + 16)),
     num_disk_cd |-> JSBigInt(lget32_bint(buf, off + 20)),
     num_disk_entries_cd |-> JSBigInt(lget64_bint(buf, off + 24)),
     num_entries_cd |-> JSBigInt(lget64_bint(buf, off + 32)),
     sz_cd |-> lget64_bint(buf, off + 40),
     off_disk_cd |-> lget64_bint(buf, off + 48),
     zip64_ext |->
        IF BInt_lt(lget64_bint(buf, off + 4), MAX_SAFE_INTEGER)
        THEN [too_large |-> FALSE,
              bytes |-> cp_buf(buf, off + 56, num32b(lget64_bint(buf, off + 4)) - 44)]
        ELSE [too_large |-> TRUE, bytes |-> <<>>]]

CDIR_throws(buf, off) ==
    \/ ~Defined(buf, off + 20, 8)
    \/ ~Defined(buf, off + 38, 8)
    \/ /\ lget16(buf, off + 30) > 0
       /\ ZIP64_ext(buf, off + 46 + lget16(buf, off + 28),
                    lget16(buf, off + 30) + 4).thrown

CDIR(buf, off) ==
    LET len_filename == lget16(buf, off + 28)
        len_ext == lget16(buf, off + 30)
        len_comment == lget16(buf, off + 32)
        cdir == [sig |-> lget32(buf, off),
                 ver |-> lget16(buf, off + 4),
                 ver_ext |-> lget16(buf, off + 6),
                 flg_gen |-> lget16(buf, off + 8),
                 compression |-> lget16(buf, off + 10),
                 tm_last_mod |-> lget16(buf, off + 12),
                 dt_last_mod |-> lget16(buf, off + 14),
                 crc_32 |-> lget32(buf, off + 16),
                 sz_compress |-> lget32_bint(buf, off + 20),
                 sz_uncompress |-> lget32_bint(buf, off + 24),
                 len_filename |-> len_filename,
                 len_ext |-> len_ext,
                 len_comment |-> len_comment,
                 num_disk |-> JSNumber(lget16(buf, off + 34)),
                 attrs_int |-> lget16(buf, off + 36),
                 attrs_ext |-> lget32_bint(buf, off + 38),
                 off_loc |-> lget32_bint(buf, off + 42),
                 sz_cdir |-> 46 + len_filename + len_ext + len_comment,
                 filename |-> cp_buf_str(buf, off + 46, len_filename),
                 comment |-> cp_buf_str(buf, off + 46 + len_filename + len_ext,
                                        len_comment)]
    IN  IF len_ext > 0
        THEN Spread(cdir, ZIP64_ext(buf, off + 46 + len_filename, len_ext + 4))
        ELSE cdir

-----------------------------------------------------------------------------
(* resizableBuffer.                                                        *)

\* dest after arraycopy(src, srcPos, dest, destPos, len): the loop copies
\* lim bytes, the count clamped to what src holds from srcPos and what dest
\* takes from destPos
arraycopy(src, srcPos, dest, destPos, len) ==
    LET srcTrunc == Max(0, Len(src) - srcPos)
        destTrunc == Max(0, Len(dest) - destPos)
        lim == Min(len, Min(srcTrunc, destTrunc))
    IN  IF lim <= 0 THEN dest
        ELSE SubSeq(dest, 1, destPos)
             \o SubSeq(src, srcPos + 1, srcPos + lim)
             \o SubSeq(dest, destPos + lim + 1, Len(dest))

getbuf(size) == [k \in 1 .. size |-> 0]

\* buf after resize(newLen, origOff, newOff, len)
resize(buf, newLen, origOff, newOff, len) ==
    LET tmp == getbuf(newLen)
        lenToCopy0 == IF len < 0 THEN Len(buf) ELSE Min(Len(buf), len)
        lenToCopy == IF (newLen - newOff + lenToCopy0) > newLen
                     THEN Max(newLen - newOff, 0)
                     ELSE lenToCopy0
    IN  arraycopy(buf, origOff, tmp, newOff, lenToCopy)

\* coalesce_front copying from the start of the chunk, whatever off is
coalesce_front_nooff(buf, chunk, off, len) ==
    IF len = 0 THEN buf
    ELSE arraycopy(chunk, 0, resize(buf, Len(buf) + len, 0, len, -1), 0, len)

\* buf after coalesce_front(_buf, off, len)
coalesce_front(buf, chunk, off, len) ==
    IF len = 0 THEN buf
    ELSE arraycopy(chunk, off, resize(buf, Len(buf) + len, 0, len, -1), 0, len)

\* ensureSize keeping the end of the buffer
ensureSize_tail(buf, size) ==
    IF Len(buf) <= size THEN buf
    ELSE resize(buf, size, Len(buf) - size, 0, size)

\* ensureSize without its cap
ensureSize_uncapped(buf, size) == buf

\* buf after ensureSize(size)
ensureSize(buf, size) ==
    IF Len(buf) <= size THEN buf ELSE resize(buf, size, 0, 0, size)

-----------------------------------------------------------------------------
(* randomAccessFile. A read returns [len, bytes]: the count fs.readSync     *)
(* returns (-1 on a bad offset or when the read fails) and the bytes it     *)
(* put at the front of the caller's buffer.                                 *)

SubBytes(f, from, n) == SubSeq(f, from + 1, from + n)

ReadFailed == [len |-> -1, bytes |-> <<>>]

\* sb.tail(buf, off, len)
tail(f, off, len, io) ==
    IF off > Len(f) \/ off < 0 \/ len < 0 \/ io = "fail" THEN ReadFailed
    ELSE LET end == Len(f) - off
             o == Max(end - len, 0)
         IN  [len |-> end - o, bytes |-> SubBytes(f, o, end - o)]

\* sb.head throws 'offset is too big!' when Number(off) is no safe integer
head_throws(off) == ~IsSafeInteger(off)

\* sb.head(buf, off, len), off a BigInt
head(f, off, len, io) ==
    IF BInt_lt(bint(Len(f)), off) \/ len < 0 \/ io = "fail" THEN ReadFailed
    ELSE LET o == num32b(off)
             n == Min(Len(f), o + len) - o
         IN  [len |-> n, bytes |-> SubBytes(f, o, n)]

-----------------------------------------------------------------------------
(* Collaborators of the extractor: CRC32.buf of the crc-32 package and      *)
(* zlib.inflateRawSync.                                                     *)

RECURSIVE Xor(_, _)
Xor(a, b) ==
    IF a = 0 THEN b
    ELSE IF b = 0 THEN a
    ELSE ((a + b) % 2) + 2 * Xor(a \div 2, b \div 2)

\* One shift of the reflected CRC-32 register c = <<low 16 bits, high 16 bits>>
\* (polynomial 0xEDB88320)
crc_shift(c) ==
    LET lo == (c[1] \div 2) + (c[2] % 2) * 32768
        hi == c[2] \div 2
    IN  IF c[1] % 2 = 1 THEN <<Xor(lo, \H8320), Xor(hi, \HEDB8)>> ELSE <<lo, hi>>

RECURSIVE crc_shifts(_, _)
crc_shifts(c, n) == IF n = 0 THEN c ELSE crc_shifts(crc_shift(c), n - 1)

\* the table of the byte-wise algorithm: the register after eight shifts
\* of <<n, 0>>
crc_table == [n \in 0 .. 255 |-> crc_shifts(<<n, 0>>, 8)]

\* the register after one more byte b: (c >>> 8) ^ table[(c ^ b) & 0xff]
crc_step(c, b) ==
    LET t == crc_table[Xor(c[1] % 256, b)]
    IN  <<Xor((c[1] \div 256) + (c[2] % 256) * 256, t[1]),
          Xor(c[2] \div 256, t[2])>>

RECURSIVE crc_range(_, _, _, _)
\* the register after the bytes a .. b, c being the register before them
\* (the loop over the bytes, split in halves to keep the evaluation shallow)
crc_range(bytes, a, b, c) ==
    IF a > b THEN c
    ELSE IF a = b THEN crc_step(c, bytes[a])
    ELSE LET m == (a + b) \div 2
             c1 == crc_range(bytes, a, m, c)
         IN  IF c1[1] >= 0 THEN crc_range(bytes, m + 1, b, c1) ELSE c1

\* the register after the bytes from index k on, c being the register
\* before them
crc_from(bytes, k, c) == crc_range(bytes, k, Len(bytes), c)

\* the register after all of bytes, from the initial value 0xFFFFFFFF
crc_upto(bytes) == crc_from(bytes, 1, <<65535, 65535>>)

\* CRC32.buf(bytes): the CRC-32 of bytes as a signed 32-bit integer
CRC32_buf(bytes) ==
    LET c == crc_upto(bytes)
        lo == 65535 - c[1]
        hi == 65535 - c[2]
    IN  lo + 65536 * (IF hi >= 32768 THEN hi - 65536 ELSE hi)

assert_crc32_throws(buf, expected_crc32) == CRC32_buf(buf) # expected_crc32

\* zlib.inflateRawSync on a stream of one final stored block (BFINAL = 1,
\* BTYPE = 00, LEN, NLEN = ~LEN, LEN literal bytes); any other stream of the
\* archives below is no deflate stream and makes zlib throw.
inflateRawSync_throws(bytes) ==
    \/ Len(bytes) < 5
    \/ bytes[1] # 1
    \/ lget16(bytes, 1) + lget16(bytes, 3) # 65535
    \/ Len(bytes) < 5 + lget16(bytes, 1)

inflateRawSync(bytes) == SubBytes(bytes, 5, lget16(bytes, 1))

-----------------------------------------------------------------------------
(* readentry(sb, cdir): its outcome [err, bytes], err = "" on success.      *)

Returned(bytes) == [err |-> "", bytes |-> bytes]
Thrown(msg) == [err |-> msg, bytes |-> <<>>]

\* buf_entry.subarray(begin, end), both clamped to the buffer (an end of
\* 2^31 or more is passed as the buffer's length, to which it is clamped)
subarray(buf, begin, end) ==
    LET b == Min(Max(begin, 0), Len(buf))
        e == Min(Max(end, 0), Len(buf))
    IN  IF e <= b THEN <<>> ELSE SubBytes(buf, b, e - b)

\* Steps 3 and 4 with a switch whose default falls back on store
readentry_data_lenient(buf_entry, loc, cdir) ==
    LET buf_data == subarray(buf_entry, loc.sz_loc,
                             IF InRange(loc.sz_compress)
                             THEN loc.sz_loc + num32b(loc.sz_compress)
                             ELSE Len(buf_entry))
    IN  IF cdir.compression = C_DEFLATE
        THEN IF inflateRawSync_throws(buf_data)
             THEN Thrown("zlib")
             ELSE IF assert_crc32_throws(inflateRawSync(buf_data), loc.crc_32)
                  THEN Thrown("CRC-32: Checksum mismatch")
                  ELSE Returned(inflateRawSync(buf_data))
        ELSE IF assert_crc32_throws(buf_data, loc.crc_32)
             THEN Thrown("CRC-32: Checksum mismatch")
             ELSE Returned(buf_data)

\* Step 3: the data section of the entry as the local header gives it
entryData(buf_entry, loc) ==
    subarray(buf_entry, loc.sz_loc,
             IF InRange(loc.sz_compress)
             THEN loc.sz_loc + num32b(loc.sz_compress)
             ELSE Len(buf_entry))

\* Steps 3 and 4, on the decoded local header
readentry_data(buf_entry, loc, cdir) ==
    LET buf_data == entryData(buf_entry, loc)
         IN  IF cdir.compression = C_STORE
             THEN IF assert_crc32_throws(buf_data, loc.crc_32)
                  THEN Thrown("CRC-32: Checksum mismatch")
                  ELSE Returned(buf_data)
             ELSE IF cdir.compression = C_DEFLATE
             THEN IF inflateRawSync_throws(buf_data)
                  THEN Thrown("zlib")
                  ELSE IF assert_crc32_throws(inflateRawSync(buf_data), loc.crc_32)
                       THEN Thrown("CRC-32: Checksum mismatch")
                       ELSE Returned(inflateRawSync(buf_data))
             ELSE Thrown("Invalid compression method")

\* the buffer readentry hands to LOC: SZ_LOC_MAX + sz_compress bytes, filled
\* from the file at off_loc as far as the file goes
entryBuf(f, cdir) ==
    LET size == SZ_LOC_MAX + num32b(cdir.sz_compress)
        rd == head(f, cdir.off_loc, size, "ok")
    IN  arraycopy(rd.bytes, 0, getbuf(size), 0, rd.len)

\* A buffer of 2^31 bytes or more cannot be held by the model and is taken
\* to fail its allocation (RangeError).
readentry(f, cdir, io) ==
    IF ~InRange(cdir.sz_compress) THEN Thrown("RangeError")
    ELSE IF head_throws(cdir.off_loc) THEN Thrown("offset is too big!")
    ELSE LET size == SZ_LOC_MAX + num32b(cdir.sz_compress)
             rd == head(f, cdir.off_loc, size, io)
         IN  IF rd.len = -1 THEN Thrown("Could not read entry")
             ELSE LET buf_entry == arraycopy(rd.bytes, 0, getbuf(size), 0, rd.len)
                  IN  IF LOC_throws(buf_entry, 0) THEN Thrown("TypeError")
                      ELSE IF LOC(buf_entry, 0).sig # SIG_LOC
                      THEN Thrown("invalid local header signature")
                      ELSE readentry_data(buf_entry, LOC(buf_entry, 0), cdir)

-----------------------------------------------------------------------------
(* The archives the model runs on. An archive is described by scn:          *)
(*   ents      its entries, in file order                                   *)
(*   ecomment  the EOCD record's comment                                    *)
(*   z64       whether a ZIP64 EOCD record and its locator precede the EOCD *)
(*   e32, e64  what the EOCD and the ZIP64 EOCD records hold in each field: *)
(*             -2 the true value, -3 the true value plus one, -1 the field's*)
(*             all-ones sentinel, any other number that number              *)
(*   cut       how many bytes are missing at the end of the file            *)
(* and an entry by                                                          *)
(*   name, comment   the bytes of its file name and comment                 *)
(*   extk, lextk     the shape of its central and local extra fields        *)
(*   method, data    compression method id and the uncompressed bytes       *)
(*   crcbad          whether the recorded CRC-32 is off by one bit          *)
(*   h32             what the central header's 32-bit sizes and offset hold *)
(*                   (coded as the EOCD fields are)                         *)
(*   lh32            what the local header's 32-bit sizes hold (0 when the  *)
(*                   writer leaves the sizes to a data descriptor)          *)
(*   ndisk, zdisk    the disk number of the central header and the one of   *)
(*                   the 28-byte ZIP64 sub-record                           *)
(* Build(scn) lays the bytes out as a ZIP writer does.                      *)

LE16(n) == <<n % 256, n \div 256>>
LE32(n) == LE16(n % 65536) \o LE16(n \div 65536)
LE64(n) == LE32(n) \o <<0, 0, 0, 0>>

Fill(b, n) == [k \in 1 .. n |-> b]

Enc(d, true, width) ==
    IF d = -1 THEN Fill(255, width)
    ELSE LET n == IF d = -2 THEN true ELSE IF d = -3 THEN true + 1 ELSE d
         IN  IF width = 2 THEN LE16(n)
             ELSE IF width = 4 THEN LE32(n)
             ELSE LE64(n)

\* the bytes 'P' 'K' 1 2 of SIG_CDIR
SigBytes == <<80, 75, 1, 2>>

\* the compressed payload: the data itself (store), or the data in one
\* stored deflate block
Payload(e) ==
    IF e.method = C_DEFLATE
    THEN <<1>> \o LE16(Len(e.data)) \o LE16(65535 - Len(e.data)) \o e.data
    ELSE e.data

\* the four bytes of the recorded CRC-32
CrcBytes(e) ==
    LET c == crc_upto(e.data)
        good == LE16(65535 - c[1]) \o LE16(65535 - c[2])
    IN  IF e.crcbad
        THEN [good EXCEPT ![1] = IF @ % 2 = 0 THEN @ + 1 ELSE @ - 1]
        ELSE good

\* a header-only sub-record of another vendor
OtherSub == LE16(\H5455) \o LE16(0)

Zip64Sub(sz, e, off) ==
    LE16(EXTSIG_ZIP64) \o LE16(sz) \o LE64(Len(e.data)) \o LE64(Len(Payload(e)))
    \o (IF sz >= 24 THEN LE64(off) ELSE <<>>)
    \o (IF sz >= 28 THEN LE32(e.zdisk) ELSE <<>>)

\* the central extra field of entry e, whose local header is at off
ExtBytes(e, off) ==
    CASE e.extk = "z24" -> Zip64Sub(24, e, off)
      [] e.extk = "z28" -> Zip64Sub(28, e, off)
      [] e.extk = "z16" -> Zip64Sub(16, e, off)
      [] e.extk = "oz28" -> OtherSub \o Zip64Sub(28, e, off)
      [] e.extk = "z28o" -> Zip64Sub(28, e, off) \o OtherSub
      [] e.extk = "o" -> OtherSub
      [] e.extk = "osig" -> LE16(\H5455) \o LE16(4) \o SigBytes
      [] e.extk = "unk" -> LE16(\H9999) \o LE16(0)
      [] e.extk = "over" -> LE16(\H5455) \o LE16(200)
      [] e.extk = "zover" -> LE16(EXTSIG_ZIP64) \o LE16(24)
      [] OTHER -> <<>>

\* the data bytes of a local extra field that makes the local header
\* longer than SZ_LOC_MAX
LongExt == SZ_LOC_MAX - 30

\* the local extra field of entry e
LocExtBytes(e) ==
    CASE e.lextk = "o" -> OtherSub
      [] e.lextk = "o16" -> LE16(\H5455) \o LE16(12) \o Fill(0, 12)
      [] e.lextk = "long" -> LE16(\H5455) \o LE16(LongExt) \o Fill(3, LongExt)
      [] e.lextk = "z24" -> Zip64Sub(24, e, 0)
      [] e.lextk = "z28" -> Zip64Sub(28, e, 0)
      [] OTHER -> <<>>

\* what the local header's 32-bit sizes hold: the sentinel when the sizes
\* are in a ZIP64 sub-record of the local extra field, else the sizes
LocH32(e) == IF e.lextk \in {"z24", "z28"} THEN -1 ELSE e.lh32

LocBytes(e) ==
    LE32(SIG_LOC) \o LE16(20) \o LE16(0) \o LE16(e.method) \o LE16(0) \o LE16(0)
    \o CrcBytes(e)
    \o Enc(LocH32(e), Len(Payload(e)), 4) \o Enc(LocH32(e), Len(e.data), 4)
    \o LE16(Len(e.name)) \o LE16(Len(LocExtBytes(e)))
    \o e.name \o LocExtBytes(e) \o Payload(e)

CdirBytes(e, off) ==
    LE32(SIG_CDIR) \o LE16(20) \o LE16(20) \o LE16(0) \o LE16(e.method)
    \o LE16(0) \o LE16(0) \o CrcBytes(e)
    \o Enc(e.h32, Len(Payload(e)), 4) \o Enc(e.h32, Len(e.data), 4)
    \o LE16(Len(e.name)) \o LE16(Len(ExtBytes(e, off))) \o LE16(Len(e.comment))
    \o LE16(e.ndisk) \o LE16(0) \o LE32(0) \o Enc(e.h32, off, 4)
    \o e.name \o ExtBytes(e, off) \o e.comment

RECURSIVE LocOff(_, _)
\* offset of the local header of entry k
LocOff(ents, k) ==
    IF k = 1 THEN 0 ELSE LocOff(ents, k - 1) + Len(LocBytes(ents[k - 1]))

RECURSIVE Locals(_, _)
Locals(ents, k) ==
    IF k > Len(ents) THEN <<>> ELSE LocBytes(ents[k]) \o Locals(ents, k + 1)

RECURSIVE CdBytes(_, _)
CdBytes(ents, k) ==
    IF k > Len(ents) THEN <<>>
    ELSE CdirBytes(ents[k], LocOff(ents, k)) \o CdBytes(ents, k + 1)

CdStart(s) == Len(Locals(s.ents, 1))
CdSize(s) == Len(CdBytes(s.ents, 1))

RECURSIVE RecStart(_, _)
\* offset of the central record of entry k
RecStart(s, k) ==
    IF k = 1 THEN CdStart(s)
    ELSE RecStart(s, k - 1)
         + Len(CdirBytes(s.ents[k - 1], LocOff(s.ents, k - 1)))

EocdBytes(s) ==
    LE32(SIG_EOCD) \o Enc(s.e32.nd, 0, 2) \o Enc(s.e32.ndcd, 0, 2)
    \o Enc(s.e32.nde, Len(s.ents), 2) \o Enc(s.e32.ne, Len(s.ents), 2)
    \o Enc(s.e32.sz, CdSize(s), 4) \o Enc(s.e32.off, CdStart(s), 4)
    \o LE16(Len(s.ecomment)) \o s.ecomment

Eocd64Bytes(s) ==
    LE32(SIG_EOCD_64) \o LE64(44) \o LE16(45) \o LE16(45)
    \o Enc(s.e64.nd, 0, 4) \o Enc(s.e64.ndcd, 0, 4)
    \o Enc(s.e64.nde, Len(s.ents), 8) \o Enc(s.e64.ne, Len(s.ents), 8)
    \o Enc(s.e64.sz, CdSize(s), 8) \o Enc(s.e64.off, CdStart(s), 8)

\* the ZIP64 EOCD locator (signature 0x07064b50)
LocatorBytes(s) ==
    LE32(\H07064b50) \o LE32(0) \o LE64(CdStart(s) + CdSize(s)) \o LE32(1)

Whole(s) ==
    Locals(s.ents, 1) \o CdBytes(s.ents, 1)
    \o (IF s.z64 THEN Eocd64Bytes(s) \o LocatorBytes(s) ELSE <<>>)
    \o EocdBytes(s)

Build(s) == SubSeq(Whole(s), 1, Max(0, Len(Whole(s)) - s.cut))

-----------------------------------------------------------------------------
(* Bounds of the families of archives.                                      *)

MaxComment == 150    \* longest EOCD comment
MaxEntries == 4     \* most entries of an archive
MaxPad == 6         \* longest padding comment of the last entry

BaseEnt(k) ==
    [name |-> <<96 + k>>, extk |-> "", comment |-> <<>>, method |-> C_STORE,
     data |-> <<>>, crcbad |-> FALSE, lextk |-> "", h32 |-> -2,
     lh32 |-> -2, ndisk |-> 0, zdisk |-> 0]

Ents(n) == [k \in 1 .. n |-> BaseEnt(k)]

True32 == [nd |-> -2, ndcd |-> -2, nde |-> -2, ne |-> -2, sz |-> -2, off |-> -2]

Archive(ents, ecomment) ==
    [ents |-> ents, ecomment |-> ecomment, z64 |-> FALSE,
     e32 |-> True32, e64 |-> True32, cut |-> 0]

\* one entry, an EOCD comment of every length: the EOCD signature takes
\* every position relative to the 64-byte windows
FamComment ==
    { [Archive(Ents(1), Fill(120, c)) EXCEPT !.z64 = z, !.e32.off = IF z THEN -1 ELSE -2] :
        c \in 0 .. MaxComment, z \in BOOLEAN }

\* every combination of sentinels in the EOCD record, with and without a
\* ZIP64 EOCD record in the file
FamFlags ==
    { [Archive(Ents(1), <<>>) EXCEPT !.z64 = z, !.e32 = f] :
        z \in BOOLEAN,
        f \in [nd : {-2, -1}, ndcd : {-2, -1}, nde : {-2, -1},
               ne : {-2, -1}, sz : {-2, -1}, off : {-2, -1}] }

\* disk numbers 0 and 1, in the EOCD record or in the ZIP64 EOCD record
FamDisk ==
    { [Archive(Ents(1), <<>>) EXCEPT
         !.z64 = z,
         !.e32 = [True32 EXCEPT !.nd = a, !.ndcd = b, !.off = IF z THEN -1 ELSE -2],
         !.e64 = [True32 EXCEPT !.nd = a, !.ndcd = b]] :
        z \in BOOLEAN, a \in {0, 1}, b \in {0, 1} }

\* a declared entry count that is right or one too many
FamCount ==
    { [Archive(Ents(n), <<>>) EXCEPT !.e32.ne = d] : n \in 0 .. 2, d \in {-2, -3} }

\* bytes that read as the header of a 24-byte ZIP64 sub-record
Zip64Lookalike == LE16(EXTSIG_ZIP64) \o LE16(24)

Shapes == {"plain", "signame", "sigcomment", "sigext", "z64comment"}

Shaped(e, shape, pad) ==
    LET e1 == CASE shape = "signame" -> [e EXCEPT !.name = SigBytes]
                [] shape = "sigcomment" -> [e EXCEPT !.comment = SigBytes]
                [] shape = "sigext" -> [e EXCEPT !.extk = "osig"]
                [] shape = "z64comment" ->
                       [e EXCEPT !.extk = "o", !.comment = Zip64Lookalike]
                [] OTHER -> e
    IN  [e1 EXCEPT !.comment = @ \o Fill(99, pad)]

\* n entries, entry j of a given shape, the last entry's comment padded to
\* slide the window boundaries over the records before it
FamScan ==
    { Archive([k \in 1 .. n |->
                  Shaped(BaseEnt(k), IF k = j THEN shape ELSE "plain",
                         IF k = n THEN pad ELSE 0)], <<>>) :
        n \in 1 .. MaxEntries, j \in 1 .. MaxEntries, shape \in Shapes,
        pad \in 0 .. MaxPad }

ExtKinds == {"z24", "z28", "z16", "oz28", "z28o", "o"}

\* an entry with every shape of extra field, its 32-bit header fields
\* holding the sentinel or garbage, alone or followed by a plain entry
FamExt ==
    { Archive(<<[BaseEnt(1) EXCEPT !.extk = x, !.h32 = h, !.ndisk = 5,
                                   !.zdisk = 3, !.data = <<7>>]>>
              \o (IF two THEN <<BaseEnt(2)>> ELSE <<>>), <<>>) :
        x \in ExtKinds, h \in {-1, 7}, two \in BOOLEAN }

\* one entry of every method (store, deflate, bzip2 = 12, and 99, an id the
\* source has no name for), payload, CRC state and local extra field
FamExtract ==
    { Archive(<<[BaseEnt(1) EXCEPT !.method = m, !.data = d, !.crcbad = c,
                                   !.lextk = lx]>>, <<>>) :
        m \in {C_STORE, C_DEFLATE, 12, 99},
        d \in {<<>>, <<104, 105>>, Zip64Lookalike},
        c \in BOOLEAN, lx \in {"", "o", "o16", "z24", "z28"} }

\* files that hold no EOCD signature: an archive that lost its EOCD record
\* but for the signature's first bytes, shorter (one entry) or longer (four
\* entries with data) than the search ceiling, and the empty file
FamNoEocd ==
    { [Archive([k \in 1 .. n |-> [BaseEnt(k) EXCEPT !.data = Fill(k, d)]], <<>>)
          EXCEPT !.cut = c] :
        n \in {1, MaxEntries}, d \in {0, 8}, c \in 19 .. 22 }
    \cup { [Archive(Ents(1), <<>>) EXCEPT !.cut = SZ_MB_4] }

\* how far past its true size the EOCD record declares the central
\* directory: into the EOCD record, to its end, past the end of the file
Overshoots == {1, 22, 23, 40, 118, 119}

\* an EOCD record that declares the central directory larger than it is
FamOversize ==
    { [Archive(Ents(n), <<>>) EXCEPT !.e32.sz = CdSize(Archive(Ents(n), <<>>)) + k] :
        n \in 1 .. 2, k \in Overshoots }

\* a last entry whose record cannot be decoded when the buffer ends less
\* than 28 bytes after its comment starts (the comment reads as the header
\* of a ZIP64 sub-record), and whose 32-byte name reads as a whole record of
\* its own; behind one plain entry or alone
FamSkip ==
    { Archive((IF two THEN <<BaseEnt(1)>> ELSE <<>>)
              \o <<[BaseEnt(2) EXCEPT !.name = SigBytes \o Fill(0, 28),
                                      !.extk = "o",
                                      !.comment = Zip64Lookalike \o Fill(99, pad)]>>,
              <<>>) :
        two \in BOOLEAN, pad \in 0 .. 2 }

\* an EOCD record that declares the central directory to start at the end
\* of the file, or one byte beyond it
FamBeyond ==
    { [Archive(Ents(n), <<>>) EXCEPT
          !.e32.off = Len(Build(Archive(Ents(n), <<>>))) + k] :
        n \in 1 .. 2, k \in 0 .. 1 }

\* one entry with two bytes of data whose local header is longer than
\* SZ_LOC_MAX, or records no sizes, or is plain
FamLocal ==
    { Archive(<<[BaseEnt(1) EXCEPT !.method = m, !.data = <<104, 105>>,
                                   !.lextk = lx[1], !.lh32 = lx[2]]>>, <<>>) :
        m \in {C_STORE, C_DEFLATE},
        lx \in {<<"long", -2>>, <<"", 0>>, <<"", -2>>} }

Scenarios ==
    FamComment \cup FamFlags \cup FamDisk \cup FamCount \cup FamScan
    \cup FamExt \cup FamExtract \cup FamNoEocd \cup FamOversize \cup FamSkip
    \cup FamLocal \cup FamBeyond

-----------------------------------------------------------------------------
(* zipEOCD.                                                                 *)

null == [isnull |-> TRUE]

NoOut == [idx |-> 0, err |-> "", bytes |-> <<>>]

Init ==
    /\ fdOpen = TRUE
    /\ scn \in Scenarios
    /\ file = Build(scn)
    /\ pc = "eocd"
    /\ rb = <<>>
    /\ offset = JSNumber(0)
    /\ isFound = FALSE
    /\ isZip64 = FALSE
    /\ eocd = null
    /\ cdirList = <<>>
    /\ cdirAt = <<>>
    /\ err = ""
    /\ headRead = FALSE
    /\ ioFailed = FALSE
    /\ maxLen = 0
    /\ out = NoOut
    /\ szbuf = SZ_BUF_64
    /\ hitAt = -1

\* the inner loop of the EOCD search, `for (i = i0; i >= 0; --i)`: the
\* first i, counting down from i0, at which sig is read, or -1
ScanBack(buf, i0, sig) ==
    LET hits == {i \in 0 .. i0 : lget32(buf, i) = sig}
    IN  IF hits = {} THEN -1 ELSE CHOOSE i \in hits : \A j \in hits : j <= i

\* the scan limit without the four-byte pad over the seam
scanLim_nopad(len, rblen) == Min(len, rblen)

\* `lim = Math.min(len+4, rb.length())`: the part of the buffer one pass
\* scans, the bytes just read and the four bytes after them
scanLim(len, rblen) == Min(len + 4, rblen)

\* One pass of the EOCD search loop. rd is what the tail read returned, buf1
\* the buffer after coalesce_front, i the index of the hit (-1 if none) and
\* buf2 the buffer after the resize that follows a hit; each is worked out
\* once, and only on the path that reaches it.
EocdPass(io) ==
    /\ pc = "eocd"
    /\ UNCHANGED fdOpen
    /\ ~isFound /\ num32b(offset.v) < SZ_MB_4
    /\ \E rd \in {tail(file, num32b(offset.v), szbuf, io)} :
       \E buf1 \in {IF rd.len = -1 THEN rb
                     ELSE coalesce_front(rb, rd.bytes, 0, rd.len)} :
       \E i \in {IF rd.len = -1 THEN -1
                  ELSE ScanBack(buf1, scanLim(rd.len, Len(buf1)) - 4,
                                IF isZip64 THEN SIG_EOCD_64 ELSE SIG_EOCD)} :
       \E buf2 \in {IF i = -1 THEN buf1
                     ELSE resize(buf1, Len(buf1) - i, i, 0, Len(buf1) - i)} :
           /\ ioFailed' = (ioFailed \/ io = "fail")
           /\ IF rd.len = -1
              THEN /\ offset' = JSNumber(num32b(offset.v) + rd.len)
                   /\ pc' = "failed" /\ err' = "EOF"
                   /\ UNCHANGED <<rb, isFound, isZip64, eocd, maxLen, hitAt>>
              ELSE IF i = -1
              THEN /\ offset' = JSNumber(num32b(offset.v) + rd.len)
                   /\ rb' = ensureSize(buf1, szbuf)
                   /\ maxLen' = Max(maxLen, Len(buf1))
                   /\ UNCHANGED <<pc, err, isFound, isZip64, eocd, hitAt>>
              ELSE /\ offset' = JSNumber(Len(buf2))
                   /\ rb' = ensureSize(buf2, szbuf)
                   /\ maxLen' = Max(maxLen, Len(buf1))
                   /\ hitAt' = Len(file) - (num32b(offset.v) + rd.len) + i
                   /\ IF isZip64
                      THEN IF EOCD_64_throws(buf2, 0)
                           THEN /\ pc' = "failed" /\ err' = "TypeError"
                                /\ UNCHANGED <<isFound, isZip64, eocd>>
                           ELSE /\ eocd' = EOCD_64(buf2, 0, eocd)
                                /\ isFound' = TRUE
                                /\ UNCHANGED <<pc, err, isZip64>>
                      ELSE IF EOCD_throws(buf2, 0)
                           THEN /\ pc' = "failed" /\ err' = "TypeError"
                                /\ UNCHANGED <<isFound, isZip64, eocd>>
                           ELSE /\ eocd' = EOCD(buf2, 0)
                                /\ isZip64' = EOCD(buf2, 0).is_zip_64
                                /\ isFound' = ~EOCD(buf2, 0).is_zip_64
                                /\ UNCHANGED <<pc, err>>
    /\ UNCHANGED <<scn, file, cdirList, cdirAt, headRead, out, szbuf>>

cdStartOff == eocd.off_disk_cd
cdEndOff == BInt_add(eocd.off_disk_cd, eocd.sz_cd)

\* The EOCD search loop has ended: the not-found check, then the set-up of
\* the central-directory scan.
EocdExit ==
    /\ pc = "eocd"
    /\ UNCHANGED fdOpen
    /\ ~(~isFound /\ num32b(offset.v) < SZ_MB_4)
    /\ IF ~isFound \/ eocd = null
       THEN /\ pc' = "failed" /\ err' = "EOCD Not Found"
            /\ UNCHANGED offset
       ELSE /\ pc' = "cdir" /\ offset' = JSBigInt(cdEndOff)
            /\ UNCHANGED err
    /\ UNCHANGED <<scn, file, rb, isFound, isZip64, eocd, cdirList, cdirAt,
                   headRead, ioFailed, maxLen, out, szbuf, hitAt>>

RECURSIVE ScanFwd_stop(_, _, _, _, _)
\* the inner loop without its try/catch: a record that fails to decode ends
\* the pass
ScanFwd_stop(buf, lim, i, base, acc) ==
    LET hits == {j \in i .. lim - 5 : lget32(buf, j) = SIG_CDIR}
    IN  IF hits = {} THEN acc
        ELSE LET j == CHOOSE h \in hits : \A g \in hits : h <= g
             IN  IF CDIR_throws(buf, j) THEN acc
                 ELSE ScanFwd_stop(buf, lim, j + (CDIR(buf, j).sz_cdir - 1) + 1, base,
                                   [list |-> <<CDIR(buf, j)>> \o acc.list,
                                    at |-> <<base + j>> \o acc.at])

RECURSIVE ScanFwd(_, _, _, _, _)
\* the inner loop of the scan, `for (; (i+4) < lim; ++i)`, from index i on:
\* it steps to the first index j at which SIG_CDIR is read and CDIR does not
\* throw, unshifts the record and goes on from j + sz_cdir. base is the file
\* offset of index 0; acc holds cdirList and the offsets its records were
\* decoded at.
ScanFwd(buf, lim, i, base, acc) ==
    LET hits == {j \in i .. lim - 5 :
                    lget32(buf, j) = SIG_CDIR /\ ~CDIR_throws(buf, j)}
    IN  IF hits = {} THEN acc
        ELSE LET j == CHOOSE h \in hits : \A g \in hits : h <= g
                 cdir == CDIR(buf, j)
             IN  ScanFwd(buf, lim, j + (cdir.sz_cdir - 1) + 1, base,
                         [list |-> <<cdir>> \o acc.list,
                          at |-> <<base + j>> \o acc.at])

\* One pass of the central-directory scan loop.
CdirPass(io) ==
    /\ pc = "cdir"
    /\ UNCHANGED fdOpen
    /\ BInt_lt(cdStartOff, offset.v)
    /\ LET bytesLeft == BInt_sub(offset.v, cdStartOff)
           readsz == num32b(BInt_min(bytesLeft, bint(SZ_MB_2)))
           head_offset == BInt_sub(offset.v, bint(readsz))
       IN  IF head_throws(head_offset)
           THEN /\ pc' = "failed" /\ err' = "offset is too big!"
                /\ UNCHANGED <<rb, offset, cdirList, cdirAt, headRead, ioFailed, maxLen>>
           ELSE LET rd == head(file, head_offset, readsz, io)
                    buf1 == coalesce_front(rb, rd.bytes, 0, rd.len)
                    lim == scanLim(rd.len, Len(buf1))
                    acc == ScanFwd(buf1, lim, 0, num32b(head_offset),
                                   [list |-> cdirList, at |-> cdirAt])
                IN  /\ headRead' = TRUE
                    /\ ioFailed' = (ioFailed \/ io = "fail")
                    /\ IF rd.len = -1
                       THEN /\ pc' = "failed" /\ err' = "EOF"
                            /\ UNCHANGED <<rb, offset, cdirList, cdirAt, maxLen>>
                       ELSE /\ offset' = JSBigInt(BInt_sub(offset.v, bint(rd.len)))
                            /\ cdirList' = acc.list
                            /\ cdirAt' = acc.at
                            /\ rb' = ensureSize(buf1, SZ_MB_2)
                            /\ maxLen' = Max(maxLen, Len(buf1))
                            /\ UNCHANGED <<pc, err>>
    /\ UNCHANGED <<scn, file, isFound, isZip64, eocd, out, szbuf, hitAt>>

\* the return without the final sanity check
CdirExit_unchecked ==
    /\ pc = "cdir"
    /\ UNCHANGED fdOpen
    /\ ~BInt_lt(cdStartOff, offset.v)
    /\ pc' = "ready"
    /\ UNCHANGED <<scn, file, rb, offset, isFound, isZip64, eocd, cdirList,
                   cdirAt, err, headRead, ioFailed, maxLen, out, szbuf, hitAt>>

\* The scan loop has ended: the final sanity check, then the return.
CdirExit ==
    /\ pc = "cdir"
    /\ UNCHANGED fdOpen
    /\ ~BInt_lt(cdStartOff, offset.v)
    /\ IF eocd.num_entries_cd.v # bint(Len(cdirList))
       THEN pc' = "failed" /\ err' = "Expected CDIR records"
       ELSE pc' = "ready" /\ UNCHANGED err
    /\ UNCHANGED <<scn, file, rb, offset, isFound, isZip64, eocd, cdirList,
                   cdirAt, headRead, ioFailed, maxLen, out, szbuf, hitAt>>

\* what a read requested with outcome io comes to: fs.readSync on a
\* descriptor that has been closed throws, as a read that fails does
readOutcome(io) == IF fdOpen THEN io ELSE "fail"

\* an unzip that writes the sizes of the local header back into the record
Unzip_writeback(k, io) ==
    /\ pc = "ready"
    /\ UNCHANGED fdOpen
    /\ k \in 1 .. Len(cdirList)
    /\ out' = [idx |-> k] @@ readentry(file, cdirList[k], readOutcome(io))
    /\ cdirList' = [cdirList EXCEPT ![k].sz_compress = bint(Len(out'.bytes))]
    /\ ioFailed' = (ioFailed \/ readOutcome(io) = "fail")
    /\ UNCHANGED <<scn, file, pc, rb, offset, isFound, isZip64, eocd,
                   cdirAt, err, headRead, maxLen, szbuf, hitAt>>

\* unzip(cdir) of the returned object, on record k of cdirList
Unzip(k, io) ==
    /\ pc = "ready"
    /\ UNCHANGED fdOpen
    /\ k \in 1 .. Len(cdirList)
    /\ out' = [idx |-> k] @@ readentry(file, cdirList[k], readOutcome(io))
    /\ ioFailed' = (ioFailed \/ readOutcome(io) = "fail")
    /\ UNCHANGED <<scn, file, pc, rb, offset, isFound, isZip64, eocd,
                   cdirList, cdirAt, err, headRead, maxLen, szbuf, hitAt>>

\* close() of the returned object: sb.close(), which closes the descriptor
\* (a second close throws EBADF and changes nothing)
Close ==
    /\ pc = "ready"
    /\ fdOpen
    /\ fdOpen' = FALSE
    /\ UNCHANGED <<scn, file, pc, rb, offset, isFound, isZip64, eocd, cdirList,
                   err, cdirAt, headRead, ioFailed, maxLen, out, szbuf, hitAt>>

Next ==
    \/ \E io \in {"ok", "fail"} : EocdPass(io)
    \/ EocdExit
    \/ \E io \in {"ok", "fail"} : CdirPass(io)
    \/ CdirExit
    \/ \E k \in 1 .. MaxEntries + 1, io \in {"ok", "fail"} : Unzip(k, io)
    \/ Close

Spec == Init /\ [][Next]_vars

-----------------------------------------------------------------------------
(* The EOCD search alone, with tail reads of every small size: the search  *)
(* loop is written against buf_64.byteLength, and the question of a        *)
(* signature split over two reads is one about every size of read.         *)

MaxChunk == 8       \* largest of the small read sizes

InitChunk ==
    /\ fdOpen = TRUE
    /\ scn \in FamComment
    /\ file = Build(scn)
    /\ pc = "eocd"
    /\ rb = <<>>
    /\ offset = JSNumber(0)
    /\ isFound = FALSE
    /\ isZip64 = FALSE
    /\ eocd = null
    /\ cdirList = <<>>
    /\ cdirAt = <<>>
    /\ err = ""
    /\ headRead = FALSE
    /\ ioFailed = FALSE
    /\ maxLen = 0
    /\ out = NoOut
    /\ szbuf \in (4 .. MaxChunk) \cup {SZ_BUF_64}
    /\ hitAt = -1

NextChunk ==
    \/ \E io \in {"ok", "fail"} : EocdPass(io)
    \/ EocdExit

SpecChunk == InitChunk /\ [][NextChunk]_vars

\* The EOCD search of the program (64-byte reads), on every archive of the
\* model, running on while it can: each iteration of the loop and the check
\* after it is taken once it is reached. Nothing makes a read fail: the
\* search is not owed a failing read, so only the iteration whose read went
\* well is fair. An iteration that leaves every variable as it was is no
\* progress.
SpecLive == Init /\ [][NextChunk]_vars /\ WF_vars(EocdPass("ok") \/ EocdExit)

-----------------------------------------------------------------------------
(* resizableBuffer on its own: one call of coalesce_front, resize or        *)
(* ensureSize on a buffer of every content up to MaxBuf bytes (zero bytes   *)
(* included, as a resize leaves them), with every argument up to MaxBuf.    *)
(* out records the call: the method, the buffer before it, the chunk and    *)
(* the arguments.                                                           *)

MaxBuf == 3         \* longest buffer and chunk, largest argument

\* the sequences of at most n bytes drawn from S
SeqsUpTo(S, n) == UNION {[1 .. k -> S] : k \in 0 .. n}

NoCall == [op |-> "", before |-> <<>>, chunk |-> <<>>, args |-> <<>>]

InitBuf ==
    /\ fdOpen = FALSE
    /\ rb \in SeqsUpTo({0, 1, 2}, MaxBuf)
    /\ out = NoCall
    /\ pc = "buffer"
    /\ scn = Archive(<<>>, <<>>)
    /\ file = <<>>
    /\ offset = JSNumber(0)
    /\ isFound = FALSE
    /\ isZip64 = FALSE
    /\ eocd = null
    /\ cdirList = <<>>
    /\ cdirAt = <<>>
    /\ err = ""
    /\ headRead = FALSE
    /\ ioFailed = FALSE
    /\ maxLen = 0
    /\ szbuf = SZ_BUF_64
    /\ hitAt = -1

\* the chunks handed to coalesce_front: bytes a buffer does not hold
Chunks == {SubSeq(<<7, 8, 9, 10, 11, 12>>, 1, k) : k \in 0 .. MaxBuf}

\* rb.coalesce_front(chunk, off, len)
CallCoalesce(chunk, off, len) ==
    /\ pc = "buffer"
    /\ UNCHANGED fdOpen
    /\ rb' = coalesce_front(rb, chunk, off, len)
    /\ out' = [op |-> "coalesce_front", before |-> rb, chunk |-> chunk,
               args |-> <<off, len>>]
    /\ pc' = "called"
    /\ UNCHANGED <<scn, file, offset, isFound, isZip64, eocd, cdirList, err,
                   cdirAt, headRead, ioFailed, maxLen, szbuf, hitAt>>

\* rb.resize(newLen, origOff, newOff, len)
CallResize(newLen, origOff, newOff, len) ==
    /\ pc = "buffer"
    /\ UNCHANGED fdOpen
    /\ rb' = resize(rb, newLen, origOff, newOff, len)
    /\ out' = [op |-> "resize", before |-> rb, chunk |-> <<>>,
               args |-> <<newLen, origOff, newOff, len>>]
    /\ pc' = "called"
    /\ UNCHANGED <<scn, file, offset, isFound, isZip64, eocd, cdirList, err,
                   cdirAt, headRead, ioFailed, maxLen, szbuf, hitAt>>

\* rb.ensureSize(size)
CallEnsureSize(size) ==
    /\ pc = "buffer"
    /\ UNCHANGED fdOpen
    /\ rb' = ensureSize(rb, size)
    /\ out' = [op |-> "ensureSize", before |-> rb, chunk |-> <<>>,
               args |-> <<size>>]
    /\ pc' = "called"
    /\ UNCHANGED <<scn, file, offset, isFound, isZip64, eocd, cdirList, err,
                   cdirAt, headRead, ioFailed, maxLen, szbuf, hitAt>>

NextBuf ==
    \/ \E chunk \in Chunks, off \in 0 .. MaxBuf, len \in 0 .. MaxBuf :
          off + len <= Len(chunk) /\ CallCoalesce(chunk, off, len)
    \/ \E newLen \in 0 .. MaxBuf + 1, origOff \in 0 .. MaxBuf,
          newOff \in 0 .. MaxBuf, len \in -1 .. MaxBuf :
          CallResize(newLen, origOff, newOff, len)
    \/ \E size \in 0 .. MaxBuf : CallEnsureSize(size)

SpecBuf == InitBuf /\ [][NextBuf]_vars

-----------------------------------------------------------------------------
(* The field decoders on their own: lget16 and lget32 at offset 0 of every  *)
(* buffer of four bytes drawn from FieldBytes. out records the call and     *)
(* what it returned.                                                        *)

\* byte values around the sign bit of each width
FieldBytes == {0, 1, 127, 128, 255}

InitGet ==
    /\ fdOpen = FALSE
    /\ rb \in [1 .. 4 -> FieldBytes]
    /\ out = [op |-> "", value |-> 0]
    /\ pc = "buffer"
    /\ scn = Archive(<<>>, <<>>)
    /\ file = <<>>
    /\ offset = JSNumber(0)
    /\ isFound = FALSE
    /\ isZip64 = FALSE
    /\ eocd = null
    /\ cdirList = <<>>
    /\ cdirAt = <<>>
    /\ err = ""
    /\ headRead = FALSE
    /\ ioFailed = FALSE
    /\ maxLen = 0
    /\ szbuf = SZ_BUF_64
    /\ hitAt = -1

\* lget16(rb, 0)
CallLget16 ==
    /\ pc = "buffer"
    /\ UNCHANGED fdOpen
    /\ out' = [op |-> "lget16", value |-> lget16(rb, 0)]
    /\ pc' = "called"
    /\ UNCHANGED <<scn, file, rb, offset, isFound, isZip64, eocd, cdirList,
                   err, cdirAt, headRead, ioFailed, maxLen, szbuf, hitAt>>

\* lget32(rb, 0)
CallLget32 ==
    /\ pc = "buffer"
    /\ UNCHANGED fdOpen
    /\ out' = [op |-> "lget32", value |-> lget32(rb, 0)]
    /\ pc' = "called"
    /\ UNCHANGED <<scn, file, rb, offset, isFound, isZip64, eocd, cdirList,
                   err, cdirAt, headRead, ioFailed, maxLen, szbuf, hitAt>>

NextGet == CallLget16 \/ CallLget32

SpecGet == InitGet /\ [][NextGet]_vars

-----------------------------------------------------------------------------
(* zipEOCD of src/unnamed/part_000, the variant without extraction, up to   *)
(* the start of its central-directory scan: its EOCD search, EOCD and       *)
(* EOCD_64 are those of src/zip-eocd.js line for line; between the          *)
(* not-found check and the scan it rejects archives of several disks.       *)

\* The EOCD search loop has ended: the not-found check, the multi-disk
\* check (`!==` against the BigInt 0n), then the set-up of the scan.
EocdExit_part_000 ==
    /\ pc = "eocd"
    /\ UNCHANGED fdOpen
    /\ ~(~isFound /\ num32b(offset.v) < SZ_MB_4)
    /\ IF ~isFound \/ eocd = null
       THEN /\ pc' = "failed" /\ err' = "EOCD Not Found"
            /\ UNCHANGED offset
       ELSE IF \/ ~StrictEq(eocd.num_disk, JSBigInt(bint(0)))
               \/ ~StrictEq(eocd.num_disk_cd, JSBigInt(bint(0)))
       THEN /\ pc' = "failed" /\ err' = "Multiple disks"
            /\ UNCHANGED offset
       ELSE /\ pc' = "cdir" /\ offset' = JSBigInt(cdEndOff)
            /\ UNCHANGED err
    /\ UNCHANGED <<scn, file, rb, isFound, isZip64, eocd, cdirList, cdirAt,
                   headRead, ioFailed, maxLen, out, szbuf, hitAt>>

NextPart_000 ==
    \/ \E io \in {"ok", "fail"} : EocdPass(io)
    \/ EocdExit_part_000

SpecPart_000 == Init /\ [][NextPart_000]_vars

-----------------------------------------------------------------------------
(* The walk over the sub-records of a central header's extra field on its   *)
(* own, one turn of its while loop at a time, in the three decoders of the  *)
(* repository: ZIP64_ext of src/zip-eocd.js and the loops written out in    *)
(* CDIR of src/eocd.js and of src/unnamed/part_000. rb is the buffer, which *)
(* holds one central header at 0; offset is _ext_off; cdirList holds the    *)
(* fields overridden so far; out names the decoder.                         *)

Decoders == {"zip-eocd.js", "eocd.js", "part_000"}

\* the central headers decoded: every shape of extra field, behind a name
\* of one or two bytes, the buffer ending with the header or 40 bytes later
ExtRecords ==
    { CdirBytes([BaseEnt(1) EXCEPT !.extk = x, !.name = Fill(97, n),
                                   !.comment = Fill(99, c)], 0) :
        x \in ExtKinds \cup {"osig", "unk", "over", "zover"},
        n \in 1 .. 2, c \in {0, 40} }

\* ext_off, and lim = ext_off + ext_len with ext_len = len_ext + 4
extOff(buf) == 46 + lget16(buf, 28)
extLim(buf) == extOff(buf) + lget16(buf, 30) + 4

InitExt ==
    /\ fdOpen = FALSE
    /\ rb \in ExtRecords
    /\ out \in {[decoder |-> d] : d \in Decoders}
    /\ offset = JSNumber(extOff(rb))
    /\ cdirList = <<NoZip64>>
    /\ pc = "walk"
    /\ scn = Archive(<<>>, <<>>)
    /\ file = <<>>
    /\ isFound = FALSE
    /\ isZip64 = FALSE
    /\ eocd = null
    /\ cdirAt = <<>>
    /\ err = ""
    /\ headRead = FALSE
    /\ ioFailed = FALSE
    /\ maxLen = 0
    /\ szbuf = SZ_BUF_64
    /\ hitAt = -1

\* the switch of one turn at _ext_off = p. In src/eocd.js lget64_bint reads
\* bytes beyond the buffer as 0 and never throws; ZIP64_ext reads the disk
\* number relative to the extra field, the other two relative to the header.
extCase(decoder, buf, p, z) ==
    IF decoder = "eocd.js" THEN ZIP64_case(buf \o Fill(0, 36), 0, p, z)
    ELSE IF decoder = "part_000" THEN ZIP64_case(buf, 0, p, z)
    ELSE ZIP64_case(buf, extOff(buf), p, z)

\* _ext_off after one turn at p: `_ext_off += (4 + sz_data)`, a statement
\* the loop of src/eocd.js does not have
extNext(decoder, buf, p) ==
    IF decoder = "eocd.js" THEN p ELSE p + 4 + lget16(buf, p + 2)

\* one turn of `while (_ext_off < lim)`
ExtTurn ==
    /\ pc = "walk"
    /\ UNCHANGED fdOpen
    /\ num32b(offset.v) < extLim(rb)
    /\ \E z \in {extCase(out.decoder, rb, num32b(offset.v), cdirList[1])} :
          IF z.thrown
          THEN /\ pc' = "failed"
               /\ err' = "TypeError"
               /\ UNCHANGED <<offset, cdirList>>
          ELSE /\ offset' = JSNumber(extNext(out.decoder, rb, num32b(offset.v)))
               /\ cdirList' = <<z>>
               /\ UNCHANGED <<pc, err>>
    /\ UNCHANGED <<scn, file, rb, isFound, isZip64, eocd, cdirAt, headRead,
                   ioFailed, maxLen, out, szbuf, hitAt>>

\* the loop has ended: `return cdir`
ExtReturn ==
    /\ pc = "walk"
    /\ UNCHANGED fdOpen
    /\ ~(num32b(offset.v) < extLim(rb))
    /\ pc' = "ready"
    /\ UNCHANGED <<scn, file, rb, offset, isFound, isZip64, eocd, cdirList,
                   cdirAt, err, headRead, ioFailed, maxLen, out, szbuf, hitAt>>

NextExt == ExtTurn \/ ExtReturn

SpecExt == InitExt /\ [][NextExt]_vars

-----------------------------------------------------------------------------
(* What the archive under scan really holds.                               *)

\* file offset of the EOCD record
EocdAt == Len(file) - Len(EocdBytes(scn))

\* file offsets of the central records
RecStarts == {RecStart(scn, k) : k \in 1 .. Len(scn.ents)}

\* the number a field coded d holds when its true value is true
Val(d, true) == IF d = -2 THEN true ELSE IF d = -3 THEN true + 1 ELSE d

\* the call has returned the record graph
Returned_ok == pc = "ready"

\* what the coming pass of the central-directory scan asks of sb.head: the
\* number of bytes and the offset, and the count a sound read returns
scanReadsz == num32b(BInt_min(BInt_sub(offset.v, cdStartOff), bint(SZ_MB_2)))
scanHeadOffset == BInt_sub(offset.v, bint(scanReadsz))
scanSoundLen == head(file, scanHeadOffset, scanReadsz, "ok").len

\* the buffer the coming pass scans, when its read goes well
scanBuf ==
    coalesce_front(rb, head(file, scanHeadOffset, scanReadsz, "ok").bytes,
                   0, scanSoundLen)

\* the indices of buf below lim - 4 at which the CDIR signature is read and
\* the record is, or is not, decodable
Matches(buf, lim, throwing) ==
    {j \in 0 .. lim - 5 :
        lget32(buf, j) = SIG_CDIR /\ (CDIR_throws(buf, j) <=> throwing)}

-----------------------------------------------------------------------------
(* Claims.                                                                 *)

\* C1: whenever zipEOCD returns, the number of records in cdirList equals
\* eocd.num_entries_cd of the returned record; and when the scan loop ends
\* with a different number of records, the call fails with the
\* count-mismatch error instead of returning.
C1_CountChecked ==
    /\ [](Returned_ok => eocd.num_entries_cd.v = bint(Len(cdirList)))
    /\ [][(/\ pc = "cdir"
           /\ ~BInt_lt(cdStartOff, offset.v)
           /\ eocd.num_entries_cd.v # bint(Len(cdirList)))
          => (pc' = "failed" /\ err' = "Expected CDIR records")]_vars

\* the call has returned two records for a declared count of two
C1_Witness ==
    /\ Returned_ok
    /\ Len(cdirList) = 2
    /\ eocd.num_entries_cd.v = bint(2)
    /\ Len(scn.ents) = 2

\* an archive as a ZIP writer makes it: no ZIP64 EOCD record, every EOCD and
\* central-header field holding its true value, one disk
WellFormed ==
    /\ scn.cut = 0
    /\ ~scn.z64
    /\ scn.e32 = True32
    /\ \A k \in 1 .. Len(scn.ents) : scn.ents[k].h32 = -2 /\ scn.ents[k].ndisk = 0

\* the CDIR signature is read nowhere in the central directory but at the
\* start of a record
SigOnlyAtStarts ==
    {i \in CdStart(scn) .. CdStart(scn) + CdSize(scn) - 4 :
        lget32(file, i) = SIG_CDIR} = RecStarts

\* C2: for a well-formed archive whose central directory is larger than one
\* scan chunk and holds the CDIR signature only at record starts, the scan
\* decodes every record exactly once and the call succeeds.
C2_EveryRecordOnce ==
    (/\ WellFormed
     /\ SigOnlyAtStarts
     /\ CdSize(scn) > SZ_MB_2
     /\ ~ioFailed
     /\ pc \in {"ready", "failed"})
    => /\ Returned_ok
       /\ Len(cdirAt) = Len(scn.ents)
       /\ {cdirAt[a] : a \in 1 .. Len(cdirAt)} = RecStarts

\* C3: the records of the returned cdirList are in file order: a record
\* earlier in the list starts at a lower offset of the central directory.
C3_FileOrder ==
    Returned_ok =>
        \A a, b \in 1 .. Len(cdirAt) : a < b => cdirAt[a] < cdirAt[b]

\* C4: the pass of the EOCD search that reads the first byte of the EOCD
\* signature hits the signature, wherever the seam between two tail reads
\* cuts it (1/3, 2/2, 3/1) and whatever the size of a read (4 bytes or more).
C4_SplitSignatureFound ==
    [][(/\ pc = "eocd"
        /\ eocd = null
        /\ num32b(offset.v) < SZ_MB_4
        /\ num32b(offset.v) < Len(file) - EocdAt
        /\ Len(file) - EocdAt <= num32b(offset.v) + szbuf
        /\ ~ioFailed')
       => hitAt' = EocdAt]_vars

\* a hit on a signature cut 1/3 by the seam of two 64-byte reads
C4_Witness ==
    /\ hitAt = EocdAt
    /\ szbuf = SZ_BUF_64
    /\ (Len(file) - EocdAt) % szbuf = 1

\* C5: a ZIP64-flagged EOCD record does not end the search, which goes on
\* for the ZIP64 signature; once the EOCD64 record is decoded, the six
\* count, size and offset fields of the merged record are the EOCD64
\* record's values, never the 32-bit sentinels, and the comment fields are
\* those of the 32-bit record.
C5_Zip64Merged ==
    /\ [][(pc = "eocd" /\ eocd = null /\ eocd' # null /\ eocd'.is_zip_64)
          => (pc' = "eocd" /\ ~isFound' /\ isZip64')]_vars
    /\ [][(isZip64 /\ ~isFound /\ isFound')
          => /\ eocd'.num_disk = JSBigInt(bint(Val(scn.e64.nd, 0)))
             /\ eocd'.num_disk_cd = JSBigInt(bint(Val(scn.e64.ndcd, 0)))
             /\ eocd'.num_disk_entries_cd
                    = JSBigInt(bint(Val(scn.e64.nde, Len(scn.ents))))
             /\ eocd'.num_entries_cd
                    = JSBigInt(bint(Val(scn.e64.ne, Len(scn.ents))))
             /\ eocd'.sz_cd = bint(Val(scn.e64.sz, CdSize(scn)))
             /\ eocd'.off_disk_cd = bint(Val(scn.e64.off, CdStart(scn)))
             /\ eocd'.sig = eocd.sig
             /\ eocd'.len_comment = eocd.len_comment
             /\ eocd'.comment = eocd.comment
             /\ eocd'.is_zip_64]_vars

\* a merged record whose 32-bit offset was the sentinel and whose comment
\* is not empty
C5_Witness ==
    /\ isFound
    /\ eocd.is_zip_64
    /\ scn.e32.off = -1
    /\ Len(scn.ecomment) > 0
    /\ eocd.off_disk_cd = bint(CdStart(scn))

\* C6: the EOCD record's ZIP64 flag is true if and only if one of the four
\* fields entries-on-this-disk, total entries, central-directory size and
\* central-directory offset holds its sentinel; no other field counts.
C6_FlagIff ==
    eocd # null =>
        (eocd.is_zip_64 <=>
            \/ scn.e32.nde = -1
            \/ scn.e32.ne = -1
            \/ scn.e32.sz = -1
            \/ scn.e32.off = -1)

\* C7: once the search has resolved a record whose disk number or
\* disk-holding-central-directory number is not zero, the call has failed,
\* and no head read has been issued.
C7_MultiDiskRejected ==
    (/\ isFound
     /\ pc # "eocd"
     /\ eocd.num_disk.v # bint(0) \/ eocd.num_disk_cd.v # bint(0))
    => (pc = "failed" /\ ~headRead)

\* what a 32-bit header field coded d decodes to
HdrVal(d, true) == IF d = -1 THEN <<65535, 65535, 0, 0, 0>> ELSE bint(Val(d, true))

\* C8: a CDIR record with a ZIP64 sub-record of size 24 or 28 has the
\* sub-record's sizes and local-header offset whatever its 32-bit fields
\* hold; with size 28 it has the sub-record's disk number too, wherever the
\* sub-record sits in the extra field; a ZIP64 sub-record of another size
\* changes nothing.
C8_Zip64Override ==
    \A a \in 1 .. Len(cdirList), k \in 1 .. Len(scn.ents) :
        cdirAt[a] = RecStart(scn, k) =>
            LET e == scn.ents[k]
                c == cdirList[a]
            IN  /\ e.extk \in {"z24", "z28", "oz28", "z28o"} =>
                      /\ c.sz_compress = bint(Len(Payload(e)))
                      /\ c.sz_uncompress = bint(Len(e.data))
                      /\ c.off_loc = bint(LocOff(scn.ents, k))
                /\ e.extk \in {"z28", "oz28", "z28o"} =>
                      c.num_disk.v = bint(e.zdisk)
                /\ e.extk = "z16" =>
                      /\ c.sz_compress = HdrVal(e.h32, Len(Payload(e)))
                      /\ c.sz_uncompress = HdrVal(e.h32, Len(e.data))
                      /\ c.off_loc = HdrVal(e.h32, LocOff(scn.ents, k))
                      /\ c.num_disk = JSNumber(e.ndisk)

\* C9: in a well-formed archive every entry of cdirList was decoded at the
\* start of a central record: the CDIR signature inside a file name, an
\* extra field or a comment adds no entry, wherever the chunk seams fall.
C9_NoSpuriousEntry ==
    WellFormed => \A a \in 1 .. Len(cdirAt) : cdirAt[a] \in RecStarts

\* C10: extracting a stored entry returns the entry's payload when its
\* CRC-32 is the recorded one and fails with checksum-mismatch when it is
\* not; and no call returns bytes whose CRC-32 is not the one recorded in
\* the local header.
C10_StoreExtract ==
    \A k \in 1 .. Len(scn.ents) :
        (/\ WellFormed
         /\ out.idx > 0
         /\ cdirAt[out.idx] = RecStart(scn, k)
         /\ out.err # "Could not read entry")
        => LET e == scn.ents[k]
           IN  /\ e.method = C_STORE =>
                     IF e.crcbad
                     THEN out.err = "CRC-32: Checksum mismatch"
                     ELSE out.err = "" /\ out.bytes = Payload(e)
               /\ out.err = "" =>
                     CRC32_buf(out.bytes) = lget32(file, LocOff(scn.ents, k) + 14)

\* C11: extracting an entry whose CDIR compression method is neither 0
\* (store) nor 8 (deflate), a method the source names or not, never returns
\* bytes; once the entry has been read and its local header accepted, the
\* failure is the unsupported-compression-method error.
C11_UnsupportedMethod ==
    (out.idx > 0 /\ cdirList[out.idx].compression \notin {C_STORE, C_DEFLATE})
    => /\ out.err # ""
       /\ out.bytes = <<>>
       /\ out.err \notin {"Could not read entry", "invalid local header signature"}
             => out.err = "Invalid compression method"

\* an entry of the unnamed method 99, with a payload and a good CRC-32, was
\* refused for its method
C11_Witness ==
    /\ out.idx > 0
    /\ cdirList[out.idx].compression = 99
    /\ scn.ents[1].data # <<>>
    /\ ~scn.ents[1].crcbad
    /\ out.err = "Invalid compression method"

\* C12: when a pass of the EOCD search has ended the buffer holds at most
\* one tail read (szbuf bytes) and within a pass it never held more than
\* two; when a pass of the central-directory scan has ended it holds at
\* most one window (SZ_MB_2 bytes) and within a pass it never held more
\* than two, however many passes have run.
C12_MemoryCeiling ==
    /\ pc = "eocd" => (Len(rb) <= szbuf /\ maxLen <= 2 * szbuf)
    /\ pc # "eocd" => (Len(rb) <= SZ_MB_2 /\ maxLen <= 2 * SZ_MB_2)

\* a scan of three passes or more, whose buffer reached two full windows
\* within a pass and was cut back to one
C12_Witness ==
    /\ pc = "ready"
    /\ CdSize(scn) > 2 * SZ_MB_2
    /\ maxLen = 2 * SZ_MB_2
    /\ Len(rb) = SZ_MB_2

\* C13: the EOCD search of every call ends: with a resolved record, with
\* the EOF error or with the EOCD-not-found error.
C13_SearchEnds ==
    <>(\/ pc = "cdir"
       \/ pc = "failed" /\ err \in {"EOF", "EOCD Not Found"})

\* C14: a pass of the central-directory scan whose head read returns fewer
\* bytes than it asked for, or fails, ends the call with the EOF error.
C14_ShortReadIsEof ==
    [][(/\ pc = "cdir"
        /\ BInt_lt(cdStartOff, offset.v)
        /\ ~head_throws(scanHeadOffset)
        /\ scanSoundLen < scanReadsz \/ ioFailed')
       => (pc' = "failed" /\ err' = "EOF")]_vars

\* C15: a pass of the central-directory scan in which the decoding of a
\* record at a CDIR-signature match fails does not end the call; the
\* entries cdirList held before the pass are still there, in the same
\* order, behind the ones the pass added; none of those was decoded at the
\* failing match; and every decodable match after the failing one that no
\* record decoded in the pass covers is decoded in the same pass.
C15_DecodeFailureSkipped ==
    [][(/\ pc = "cdir"
        /\ BInt_lt(cdStartOff, offset.v)
        /\ ~head_throws(scanHeadOffset)
        /\ scanSoundLen >= 0
        /\ ~ioFailed')
       => \A buf \in {scanBuf} :
          \A bad \in {Matches(buf, scanLim(scanSoundLen, Len(buf)), TRUE)} :
          \A good \in {Matches(buf, scanLim(scanSoundLen, Len(buf)), FALSE)} :
             bad # {} =>
                LET base == num32b(scanHeadOffset)
                    k == Len(cdirAt') - Len(cdirAt)
                    new == {cdirAt'[a] : a \in 1 .. k}
                IN  /\ pc' = "cdir"
                    /\ k >= 0
                    /\ SubSeq(cdirList', k + 1, Len(cdirList')) = cdirList
                    /\ SubSeq(cdirAt', k + 1, Len(cdirAt')) = cdirAt
                    /\ \A j \in bad : base + j \notin new
                    /\ \A j \in bad, j2 \in good :
                          (/\ j2 > j
                           /\ ~\E a \in 1 .. k :
                                 /\ cdirAt'[a] < base + j2
                                 /\ base + j2 < cdirAt'[a] + cdirList'[a].sz_cdir)
                          => base + j2 \in new]_vars

\* the record of the one entry failed to decode at its start, offset
\* RecStart, and the scan went on in the same pass: it decoded what the
\* entry's name reads as, 46 bytes further
C15_Witness ==
    /\ scn \in FamSkip
    /\ Len(scn.ents) = 1
    /\ Len(scn.ents[1].comment) = 4
    /\ pc = "ready"
    /\ cdirAt = <<RecStart(scn, 1) + 46>>

\* C16: an extraction call, returning or failing, leaves eocd and cdirList
\* as they were, and its outcome is the one a first call on that record
\* has, whatever calls were made before it. (The other step of the returned
\* object, close(), is the one that changes fdOpen.)
C16_ExtractionFrame ==
    [][(pc = "ready" /\ fdOpen' = fdOpen)
       => /\ eocd' = eocd
          /\ cdirList' = cdirList
          /\ \E io \in {"ok", "fail"} :
                out' = [idx |-> out'.idx] @@ readentry(file, cdirList[out'.idx], io)]_vars

\* an extraction that returned the entry's bytes after an earlier call on
\* the same archive had failed on its read
C16_Witness ==
    /\ pc = "ready"
    /\ ioFailed
    /\ out.err = ""
    /\ out.bytes # <<>>

\* C17: coalesce_front(chunk, off, len) with len > 0 and off + len within
\* the chunk leaves the buffer equal to the len bytes of the chunk from off
\* on, followed at once by what the buffer held, unchanged; with len = 0 it
\* leaves the buffer as it was.
C17_CoalesceFront ==
    (out.op = "coalesce_front" /\ out.args[1] + out.args[2] <= Len(out.chunk))
    => IF out.args[2] > 0
       THEN /\ rb = SubSeq(out.chunk, out.args[1] + 1, out.args[1] + out.args[2])
                     \o out.before
            /\ Len(rb) = Len(out.before) + out.args[2]
       ELSE rb = out.before

\* two bytes taken from the middle of a chunk in front of a buffer of two
C17_Witness ==
    /\ out.op = "coalesce_front"
    /\ out.chunk = <<7, 8, 9>>
    /\ out.args = <<1, 2>>
    /\ out.before = <<1, 2>>
    /\ rb = <<8, 9, 1, 2>>

\* C18: resize(newLen, origOff, newOff, len) leaves a buffer of exactly newLen
\* bytes; the bytes copied from the old buffer number the least of len (the
\* whole old length when len is negative), the old length less origOff and
\* newLen less newOff, never more than len; they are the old bytes from
\* origOff on and lie from newOff on; every other byte is zero.
C18_ResizeCopies ==
    out.op = "resize"
    => LET old == out.before
           newLen == out.args[1]
           origOff == out.args[2]
           newOff == out.args[3]
           len == out.args[4]
           want == IF len < 0 THEN Len(old) ELSE len
           n == Max(0, Min(want, Min(Len(old) - origOff, newLen - newOff)))
       IN  /\ Len(rb) = newLen
           /\ \A k \in 1 .. newLen :
                 rb[k] = IF newOff < k /\ k <= newOff + n
                         THEN old[origOff + k - newOff]
                         ELSE 0

\* C19 as stated: ensureSize(maxLength) on a buffer longer than maxLength
\* leaves exactly the last maxLength bytes of the previous contents; on a
\* buffer of at most maxLength bytes it changes nothing.
C19_KeepsLast ==
    out.op = "ensureSize"
    => IF Len(out.before) > out.args[1]
       THEN rb = SubSeq(out.before, Len(out.before) - out.args[1] + 1,
                        Len(out.before))
       ELSE rb = out.before

\* C19 as amended: ensureSize(maxLength) on a buffer longer than maxLength
\* leaves exactly the first maxLength bytes of the previous contents (the
\* tail is dropped, the front is preserved); on a buffer of at most
\* maxLength bytes it changes nothing.
C19_KeepsFirst ==
    out.op = "ensureSize"
    => IF Len(out.before) > out.args[1]
       THEN rb = SubSeq(out.before, 1, out.args[1])
       ELSE rb = out.before

\* a buffer of three distinct bytes cut to its first two
C19_Witness ==
    /\ out.op = "ensureSize"
    /\ out.before = <<1, 2, 0>>
    /\ out.args = <<2>>
    /\ rb = <<1, 2>>

\* the local header's own extra field, decoded by the shared routine
ownZip64(buf) == ZIP64_ext(buf, 30 + lget16(buf, 26), lget16(buf, 28))

\* C20: the local header decoded for an extraction has the sizes of the
\* ZIP64 sub-record (of size 24 or 28) of its own extra field, the one that
\* starts at 30 + filename length, when that field holds one, and the sizes
\* of its 32-bit fields when it holds none: no byte outside the extra field
\* changes them.
C20_LocOwnExtra ==
    (/\ WellFormed
     /\ out.idx > 0
     /\ out.err \notin {"Could not read entry", "RangeError", "TypeError",
                        "offset is too big!"})
    => LET buf == entryBuf(file, cdirList[out.idx])
           loc == LOC(buf, 0)
           own == ownZip64(buf)
       IN  IF own.has
           THEN /\ loc.sz_compress = own.sz_compress
                /\ loc.sz_uncompress = own.sz_uncompress
           ELSE /\ loc.sz_compress = lget32_bint(buf, 18)
                /\ loc.sz_uncompress = lget32_bint(buf, 22)

\* C21: the payload slice of an extraction is the file's bytes from
\* off_loc + header size on, as many as the entry's resolved compressed size,
\* the header size being 30 + filename length + extra length: for every
\* header size and whatever sizes the local header records.
C21_PayloadSlice ==
    (/\ WellFormed
     /\ out.idx > 0
     /\ out.err \notin {"Could not read entry", "RangeError", "TypeError",
                        "offset is too big!", "invalid local header signature"})
    => LET cdir == cdirList[out.idx]
           buf == entryBuf(file, cdir)
           at == num32b(cdir.off_loc)
           hdr == 30 + lget16(file, at + 26) + lget16(file, at + 28)
       IN  entryData(buf, LOC(buf, 0))
             = SubBytes(file, at + hdr, num32b(cdir.sz_compress))

\* C22: every pass of the central-directory scan loop either fails with EOF
\* or strictly decreases the distance offset - cdStart that is left, so the
\* loop ends: whenever the loop is about to run a pass, the pass's head read
\* either fails (EOF) or returns at least one byte, also when the declared
\* central directory reaches to the end of the file or beyond.
C22_ScanPassAdvances ==
    (/\ pc = "cdir"
     /\ BInt_lt(cdStartOff, offset.v)
     /\ ~head_throws(scanHeadOffset))
    => scanSoundLen = -1 \/ scanSoundLen > 0

\* C23: in each of the three decoders the walk over the sub-records of a
\* non-empty extra field ends, whatever the field holds: every turn of the
\* loop moves _ext_off forward, by the four bytes of a sub-record header at
\* least, so that the limit is reached and the record returned.
C23_WalkAdvances ==
    (pc = "walk" /\ num32b(offset.v) < extLim(rb))
    => extNext(out.decoder, rb, num32b(offset.v)) >= num32b(offset.v) + 4

\* C24: in zipEOCD of src/unnamed/part_000 the search that has resolved a
\* record ends in the multi-disk error if and only if the record's disk
\* number or its disk-holding-central-directory number is not zero, on the
\* 32-bit EOCD path and on the EOCD64 path alike.
C24_MultiDiskIff ==
    (pc # "eocd" /\ isFound /\ eocd # null)
    => ((pc = "failed" /\ err = "Multiple disks")
        <=> (eocd.num_disk.v # bint(0) \/ eocd.num_disk_cd.v # bint(0)))

\* C25: lget32 returns, for every four bytes b0..b3, the unsigned
\* little-endian value b0 + 256*b1 + 65536*b2 + 16777216*b3, which lies in
\* [0, 2^32), also when b3 >= 128: it is never negative. (The value is
\* stated by its two 16-bit halves, b0 + 256*b1 and b2 + 256*b3.)
C25_Lget32Unsigned ==
    out.op = "lget32"
    => /\ out.value >= 0
       /\ out.value % 65536 = rb[1] + 256 * rb[2]
       /\ out.value \div 65536 = rb[3] + 256 * rb[4]

\* C26: at the start of every pass of the EOCD search the buffer is the run
\* of file bytes that begins at distance offset from the end of the file
\* (its first byte is the byte at that distance), so that the next tail
\* read, once prepended, continues it: after a plain pass, after the cap to
\* the chunk size, and after a hit that trims the buffer and resets offset.
C26_Contiguous ==
    (/\ pc = "eocd"
     /\ ~isFound
     /\ num32b(offset.v) < SZ_MB_4
     /\ rb # <<>>)
    => /\ num32b(offset.v) <= Len(file)
       /\ rb = SubBytes(file, Len(file) - num32b(offset.v), Len(rb))

\* C27: a central record of a well-formed archive whose extra field holds
\* no ZIP64 sub-record of size 24 or 28 is returned with the sizes, local offset and disk number of
\* its fixed header: the bytes behind the extra field (the record's comment,
\* the next record) are not read as a sub-record header and override nothing.
C27_OnlyOwnExtra ==
    \A a \in 1 .. Len(cdirList), k \in 1 .. Len(scn.ents) :
        (/\ WellFormed
         /\ cdirAt[a] = RecStart(scn, k)
         /\ scn.ents[k].extk \notin {"z24", "z28", "oz28", "z28o"})
        => LET e == scn.ents[k]
               c == cdirList[a]
           IN  /\ c.sz_compress = HdrVal(e.h32, Len(Payload(e)))
               /\ c.sz_uncompress = HdrVal(e.h32, Len(e.data))
               /\ c.off_loc = HdrVal(e.h32, LocOff(scn.ents, k))
               /\ c.num_disk = JSNumber(e.ndisk)

\* C28: the comment of the decoded EOCD record is the len_comment file
\* bytes that follow the record's 22-byte fixed part, whatever the length of
\* the comment, also when the EOCD signature is found in the third pass of
\* the search or later.
C28_CommentWhole ==
    (eocd # null /\ hitAt = EocdAt /\ scn.cut = 0)
    => /\ eocd.len_comment = Len(scn.ecomment)
       /\ eocd.comment = uint8arr_to_str(SubBytes(file, EocdAt + 22, eocd.len_comment))

\* C29: the file descriptor zipEOCD opened is closed or handed to the
\* caller: when the call has failed with EOF, EOCD-not-found or the
\* count-mismatch error the descriptor is closed; when the call has returned
\* the descriptor stays open until the returned close() is called, and
\* nothing else closes it.
C29_HandleClosed ==
    /\ []((pc = "failed" /\ err \in {"EOF", "EOCD Not Found",
                                      "Expected CDIR records"}) => ~fdOpen)
    /\ [][(fdOpen /\ ~fdOpen')
          => (pc = "ready" /\ UNCHANGED <<pc, out, cdirList, eocd>>)]_vars

=============================================================================
